---- MODULE Spec2Model ----
(***************************************************************************)
(* Model of the Mediavida rehydration pipeline (rehydrate_mediavida.py).   *)
(*                                                                         *)
(* Python strings are sequences of one-character strings, so that strip,   *)
(* whitespace collapsing, urljoin and the trailing-integer regex are       *)
(* computed character by character.  URLs are modelled by their path       *)
(* (scheme and host are the same for every URL of one thread).             *)
(***************************************************************************)
EXTENDS Integers, Sequences, FiniteSets, TLC

VARIABLES
    pc,            \* position of main(): start, crawl, dialogues, turns, done, raised
    obj,           \* the parsed input JSON: thread_url, dialogues
    max_pages,     \* args.max_pages
    url,           \* scrape_thread_posts: url
    seen,          \* scrape_thread_posts: seen
    pages,         \* scrape_thread_posts: pages
    all_posts,     \* scrape_thread_posts: all_posts (posts in main)
    fetched,       \* log of the URLs handed to sess.get, in order
    speaker_map,   \* main: speaker_map
    di,            \* index of the dialogue main's outer loop is at
    ci,            \* index of the chain element main's inner loop is at
    out_turns,     \* main: out_turns
    miss,          \* main: miss
    rehydrated,    \* main: rehydrated_dialogues
    missing,       \* main: missing
    output,        \* content of the output file, NoFile until written
    calls,         \* log of the _assign_speaker calls: <<raw_author, label>>
    cur_url,       \* _find_next_url: current_url
    soup,          \* _find_next_url: the anchors of the page, in document order
    nxt            \* _find_next_url: its return value, Pending before the call

mainVars == <<pc, obj, max_pages, url, seen, pages, all_posts, fetched,
              di, ci, out_turns, miss, rehydrated, missing, output>>
nextVars == <<cur_url, soup, nxt>>
vars == <<mainVars, speaker_map, calls, nextVars>>

-----------------------------------------------------------------------------
(* Python values *)

\* Python's None, where a string (a sequence of characters) is expected.
None == <<"None">>

\* The characters str.strip() and the regex class \s remove.
Whitespace == {" ", "\n", "\r", "\t"}

RECURSIVE LStrip(_)
LStrip(s) ==
    IF s # <<>> /\ Head(s) \in Whitespace THEN LStrip(Tail(s)) ELSE s

RECURSIVE RStrip(_)
RStrip(s) ==
    IF s # <<>> /\ s[Len(s)] \in Whitespace
    THEN RStrip(SubSeq(s, 1, Len(s) - 1))
    ELSE s

\* str.strip()
Strip(s) == RStrip(LStrip(s))

RECURSIVE Reverse(_)
Reverse(s) == IF s = <<>> THEN <<>> ELSE Append(Reverse(Tail(s)), Head(s))

-----------------------------------------------------------------------------
(* _index_to_letters *)

Alphabet == <<"A", "B", "C", "D", "E", "F", "G", "H", "I", "J", "K", "L", "M",
              "N", "O", "P", "Q", "R", "S", "T", "U", "V", "W", "X", "Y", "Z">>

Radix == 26

\* The while loop of _index_to_letters: i is the loop variable, letters the
\* list built so far (least significant letter first).
RECURSIVE LettersLoop(_, _)
LettersLoop(i, letters) ==
    LET q == i \div Radix
        rem == i % Radix
        l2 == Append(letters, Alphabet[rem + 1])
    IN  IF q = 0 THEN l2 ELSE LettersLoop(q - 1, l2)

\* A mutant: the "i -= 1" of the loop is forgotten (plain base 26).
RECURSIVE LettersLoopNoDecrement(_, _)
LettersLoopNoDecrement(i, letters) ==
    LET q == i \div Radix
        rem == i % Radix
        l2 == Append(letters, Alphabet[rem + 1])
    IN  IF q = 0 THEN l2 ELSE LettersLoopNoDecrement(q, l2)

IndexToLettersNoDecrement(i) == Reverse(LettersLoopNoDecrement(i, <<>>))

IndexToLetters(i) == Reverse(LettersLoop(i, <<>>))

-----------------------------------------------------------------------------
(* _assign_speaker *)

Sentinel == <<"_", "_", "u", "n", "k", "n", "o", "w", "n", "_", "_">>

\* a = (raw_author or "").strip(); if not a: a = "__unknown__"
NormalizeToken(raw_author) ==
    LET a == Strip(IF raw_author = None THEN <<>> ELSE raw_author)
    IN  IF a = <<>> THEN Sentinel ELSE a

EmptyMap == [k \in {} |-> <<>>]

\* A mutant: the token is looked up as given, not stripped.
AssignSpeakerRawKey(raw_author, mapping) ==
    LET a == IF raw_author = None \/ raw_author = <<>> THEN Sentinel ELSE raw_author
    IN  IF a \in DOMAIN mapping
        THEN [label |-> mapping[a], mapping |-> mapping]
        ELSE LET label == IndexToLetters(Cardinality(DOMAIN mapping))
             IN  [label |-> label, mapping |-> (a :> label) @@ mapping]

\* The label returned and the mapping as the call leaves it.
AssignSpeaker(raw_author, mapping) ==
    LET a == NormalizeToken(raw_author)
    IN  IF a \in DOMAIN mapping
        THEN [label |-> mapping[a], mapping |-> mapping]
        ELSE LET label == IndexToLetters(Cardinality(DOMAIN mapping))
             IN  [label |-> label, mapping |-> (a :> label) @@ mapping]

-----------------------------------------------------------------------------
(* _clean_text *)

\* .replace("\r\n", "\n").replace("\r", "\n")
RECURSIVE ReplaceCR(_)
ReplaceCR(t) ==
    IF t = <<>> THEN <<>>
    ELSE IF Head(t) = "\r"
         THEN IF Len(t) >= 2 /\ t[2] = "\n"
              THEN <<"\n">> \o ReplaceCR(Tail(Tail(t)))
              ELSE <<"\n">> \o ReplaceCR(Tail(t))
         ELSE <<Head(t)>> \o ReplaceCR(Tail(t))

\* _WS_RE.sub(" ", t): every maximal run of whitespace becomes one space.
RECURSIVE CollapseWs(_)
CollapseWs(t) ==
    IF t = <<>> THEN <<>>
    ELSE IF Head(t) \in Whitespace
         THEN <<" ">> \o CollapseWs(LStrip(t))
         ELSE <<Head(t)>> \o CollapseWs(Tail(t))

CleanText(text) ==
    IF text = None THEN <<>> ELSE Strip(CollapseWs(ReplaceCR(text)))

-----------------------------------------------------------------------------
(* URLs: urlparse, urljoin, _normalize_href, _find_next_url *)

Digits == {"0", "1", "2", "3", "4", "5", "6", "7", "8", "9"}

DigitVal(c) ==
    CASE c = "0" -> 0 [] c = "1" -> 1 [] c = "2" -> 2 [] c = "3" -> 3
      [] c = "4" -> 4 [] c = "5" -> 5 [] c = "6" -> 6 [] c = "7" -> 7
      [] c = "8" -> 8 [] c = "9" -> 9

\* int() of a non-empty string of decimal digits.
RECURSIVE DigitsToInt(_)
DigitsToInt(ds) ==
    IF ds = <<>> THEN 0
    ELSE 10 * DigitsToInt(SubSeq(ds, 1, Len(ds) - 1)) + DigitVal(ds[Len(ds)])

\* path.rstrip("/")
RECURSIVE RStripSlash(_)
RStripSlash(p) ==
    IF p # <<>> /\ p[Len(p)] = "/"
    THEN RStripSlash(SubSeq(p, 1, Len(p) - 1))
    ELSE p

\* The longest suffix of p made of digits only.
RECURSIVE DigitSuffix(_)
DigitSuffix(p) ==
    IF p # <<>> /\ p[Len(p)] \in Digits
    THEN Append(DigitSuffix(SubSeq(p, 1, Len(p) - 1)), p[Len(p)])
    ELSE <<>>

\* re.search(r"/(\d+)$", p): the group matched, None when there is no match.
\* A "/" followed by digits up to the end can only be the character before
\* the longest digit suffix.
TrailingDigits(p) ==
    LET ds == DigitSuffix(p)
        k == Len(p) - Len(ds)
    IN  IF ds # <<>> /\ k >= 1 /\ p[k] = "/" THEN ds ELSE None

\* The index of the last "/" of p, 0 when there is none.
RECURSIVE LastSlash(_)
LastSlash(p) ==
    IF p = <<>> THEN 0
    ELSE IF p[Len(p)] = "/" THEN Len(p) ELSE LastSlash(SubSeq(p, 1, Len(p) - 1))

\* urljoin(base_url, href) for a non-empty href that is a path: an href that
\* starts with "/" replaces the path, any other replaces what follows the
\* last "/" of the base path.
UrlJoin(base_url, href) ==
    IF Head(href) = "/" THEN href
    ELSE IF LastSlash(base_url) = 0 THEN <<"/">> \o href
    ELSE SubSeq(base_url, 1, LastSlash(base_url)) \o href

\* Python truthiness of a.get("href"): an absent attribute is None.
Truthy(s) == s # None /\ s # <<>>

NormalizeHref(base_url, href) ==
    IF ~Truthy(href) THEN None
    ELSE IF Strip(href) = <<>> THEN None
    ELSE UrlJoin(base_url, Strip(href))

LowerAlphabet == <<"a", "b", "c", "d", "e", "f", "g", "h", "i", "j", "k", "l", "m",
                   "n", "o", "p", "q", "r", "s", "t", "u", "v", "w", "x", "y", "z">>

\* str.lower(), character by character.
LowerChar(c) ==
    IF \E i \in 1..Radix : Alphabet[i] = c
    THEN LowerAlphabet[CHOOSE i \in 1..Radix : Alphabet[i] = c]
    ELSE c

Lower(s) == [i \in 1..Len(s) |-> LowerChar(s[i])]

Siguiente == <<"s", "i", "g", "u", "i", "e", "n", "t", "e">>

\* (a.get_text(" ", strip=True) or "").lower() of an anchor with one text node.
AnchorText(a) == Lower(Strip(a.text))

\* int(m.group(1)) of re.search(r"/(\d+)$", urlparse(u).path.rstrip("/")),
\* -1 when the regex does not match (a page number is never negative).
PageOf(u) ==
    LET ds == TrailingDigits(RStripSlash(u))
    IN  IF ds = None THEN -1 ELSE DigitsToInt(ds)

\* The indices of the anchors the fallback loop enters in candidates.
CandidateIdx(current_url, anchors) ==
    {i \in 1..Len(anchors) :
        /\ Truthy(anchors[i].href)
        /\ NormalizeHref(current_url, anchors[i].href) # None
        /\ PageOf(NormalizeHref(current_url, anchors[i].href)) # -1}

\* candidates: page -> absu, a later anchor overwriting an earlier one.
Candidates(current_url, anchors) ==
    LET idx == CandidateIdx(current_url, anchors)
        pageAt(i) == PageOf(NormalizeHref(current_url, anchors[i].href))
        keys == {pageAt(i) : i \in idx}
        lastOf(p) == CHOOSE i \in idx : pageAt(i) = p /\ \A j \in idx : pageAt(j) = p => j <= i
    IN  [p \in keys |-> NormalizeHref(current_url, anchors[lastOf(p)].href)]

FindNextUrl(current_url, anchors) ==
    LET relIdx == {i \in 1..Len(anchors) : "next" \in anchors[i].rel}
        a1 == CHOOSE i \in relIdx : \A j \in relIdx : i <= j
        sigIdx == {i \in 1..Len(anchors) :
                      AnchorText(anchors[i]) = Siguiente /\ Truthy(anchors[i].href)}
        a2 == CHOOSE i \in sigIdx : \A j \in sigIdx : i <= j
        cur_page == IF PageOf(current_url) = -1 THEN 1 ELSE PageOf(current_url)
        candidates == Candidates(current_url, anchors)
        higher_pages == {p \in DOMAIN candidates : p > cur_page}
        lowest == CHOOSE p \in higher_pages : \A q \in higher_pages : p <= q
    IN  IF relIdx # {} /\ Truthy(anchors[a1].href)
        THEN NormalizeHref(current_url, anchors[a1].href)
        ELSE IF sigIdx # {}
        THEN NormalizeHref(current_url, anchors[a2].href)
        ELSE IF higher_pages # {}
        THEN candidates[lowest]
        ELSE None

-----------------------------------------------------------------------------
(* _find_next_url applied to bounded pages *)

Pending == <<"Pending">>

MaxAnchors == 2

T1 == <<"/", "t">>
T2 == <<"/", "t", "/", "2">>
T3 == <<"/", "t", "/", "3">>

\* a.get("href") of the anchors tried: absent, empty, blank, relative,
\* absolute, padded, with a leading zero, with a trailing slash, not a page.
Hrefs ==
    { None, <<>>, <<" ">>, <<"2">>, <<"/", "t", "/", "3">>, <<" ", "/", "t", "/", "2", " ">>,
      <<"/", "t", "/", "0", "3">>, <<"/", "t", "/", "2", "/">>, <<"/", "t", "/", "p", "2">> }

AnchorTexts == { <<>>, <<"S", "i", "g", "u", "i", "e", "n", "t", "e">>, <<"2">> }

Anchors == [rel : {{}, {"next"}}, text : AnchorTexts, href : Hrefs]

Soups == UNION {[1..n -> Anchors] : n \in 0..MaxAnchors}

CurUrls == {T1, T2, <<"/", "t", "/", "2", "/">>}

NextIdle == cur_url = None /\ soup = <<>> /\ nxt = Pending

NextInit ==
    /\ cur_url \in CurUrls
    /\ soup \in Soups
    /\ nxt = Pending

CallFindNextUrl ==
    /\ nxt = Pending
    /\ cur_url # None
    /\ nxt' = FindNextUrl(cur_url, soup)
    /\ UNCHANGED <<cur_url, soup>>

-----------------------------------------------------------------------------
(* _assign_speaker applied to bounded sequences of author tokens *)

MaxCalls == 3
MaxPre == 26

DigitChar == <<"0", "1", "2", "3", "4", "5", "6", "7", "8", "9">>

\* The n-th of a supply of distinct author names: u00, u01, ...
UserName(n) == <<"u", DigitChar[(n \div 10) + 1], DigitChar[(n % 10) + 1]>>

\* raw_author as given to _assign_speaker: missing, empty, blank, padded,
\* plain, and a name that spells the sentinel.
RawTokens ==
    { None, <<>>, <<" ", " ">>, <<"a">>, <<" ", "a">>, <<"b">>, Sentinel }

\* _assign_speaker called on UserName(n), UserName(n + 1), ..., UserName(k),
\* in order, on the given speaker map; log is the log of the calls.
RECURSIVE AssignUsers(_, _, _, _)
AssignUsers(n, k, mapping, log) ==
    IF n > k THEN [mapping |-> mapping, calls |-> log]
    ELSE AssignUsers(n + 1, k, AssignSpeaker(UserName(n), mapping).mapping,
                     Append(log, [raw |-> UserName(n),
                                  label |-> AssignSpeaker(UserName(n), mapping).label]))

\* The state after k calls on distinct names, starting from an empty map.
AfterUsers(k) == AssignUsers(1, k, EmptyMap, <<>>)

PreSizes == {0} \cup {k \in (MaxPre - 2)..MaxPre : k >= 0}

SpeakerInit ==
    \E k \in PreSizes :
        /\ speaker_map = AfterUsers(k).mapping
        /\ calls = AfterUsers(k).calls

CallAssignSpeaker ==
    /\ \E raw \in RawTokens :
        /\ Len(SelectSeq(calls, LAMBDA c : c.raw \in RawTokens)) < MaxCalls
        /\ LET r == AssignSpeaker(raw, speaker_map)
           IN  /\ speaker_map' = r.mapping
               /\ calls' = Append(calls, [raw |-> raw, label |-> r.label])

-----------------------------------------------------------------------------
(* main: the input file *)

MaxCap == 2
MaxChain == 2
ExampleCap == 5

\* args.max_pages: every cap up to MaxCap, and the cap of spec.md's example.
Caps == (0..MaxCap) \cup {ExampleCap}

\* obj.get("thread_url"): missing (None), a number, an empty, a blank and a
\* usable string.  s is the string when t = "str".
ThreadUrls ==
    { [t |-> "null", s |-> <<>>], [t |-> "num", s |-> <<>>], [t |-> "str", s |-> <<>>],
      [t |-> "str", s |-> <<" ", "\n">>], [t |-> "str", s |-> T1] }

\* The elements of a chain: JSON integers, strings and null.
Cids ==
    { [t |-> "int", n |-> 5, s |-> <<>>], [t |-> "int", n |-> 6, s |-> <<>>],
      [t |-> "str", n |-> 0, s |-> <<" ", "0", "7">>],
      [t |-> "str", n |-> 0, s |-> <<"x">>], [t |-> "null", n |-> 0, s |-> <<>>] }

Chains == UNION {[1..n -> Cids] : n \in 0..MaxChain}

\* The chain of spec.md's example: [5, 6, "x"].
ExampleChain ==
    << [t |-> "int", n |-> 5, s |-> <<>>], [t |-> "int", n |-> 6, s |-> <<>>],
       [t |-> "str", n |-> 0, s |-> <<"x">>] >>

\* A value of the dialogues mapping: a list, or something that is no list.
ListValue(chain) == [t |-> "list", v |-> chain]
NotAList == [t |-> "num", v |-> <<>>]

\* obj.get("dialogues"): a dict as the sequence of its items, or no dict.
DialogueInputs ==
    { [t |-> "null", items |-> <<>>], [t |-> "list", items |-> <<>>] }
    \cup { [t |-> "dict", items |-> << <<"d1", ListValue(c)>> >>] : c \in Chains \cup {ExampleChain} }
    \cup { [t |-> "dict", items |-> << <<"d1", ListValue(c)>>, <<"d2", NotAList>>,
                                       <<"d3", ListValue(ExampleChain)>> >>] :
                c \in {c \in Chains : Len(c) <= 1} }

\* A mutant: the string is tested as it is, not stripped.
ValidInputNoStrip(o) ==
    /\ o.thread_url.t = "str"
    /\ o.thread_url.s # <<>>
    /\ o.dialogues.t = "dict"

\* isinstance(thread_url, str) and thread_url.strip(), isinstance(dialogues, dict)
ValidInput(o) ==
    /\ o.thread_url.t = "str"
    /\ Strip(o.thread_url.s) # <<>>
    /\ o.dialogues.t = "dict"

-----------------------------------------------------------------------------
(* main: what the site serves *)

Alice == <<"a", "l", "i", "c", "e">>
Bob == <<"b", "o", "b">>
Hello == <<"h", "e", "l", "l", "o">>

Post(author, text) == [author |-> author, text |-> text]

\* What _extract_posts returns for the pages tried: post number -> post.
PagePosts ==
    { EmptyMap,
      (5 :> Post(Alice, Hello)),
      (5 :> Post(Bob, <<>>)) @@ (6 :> Post(<<>>, <<"h", "i", "\r", "\n", "\n", "u">>)),
      (6 :> Post(Bob, <<"h", "i">>)) @@ (7 :> Post(Alice, <<>>)) }

Link(rel, text, href) == [rel |-> rel, text |-> text, href |-> href]

\* The anchors of the pages tried: none, rel=next to each page, a
\* "Siguiente" link, and numbered pagination links.
PageAnchors ==
    { <<>>,
      <<Link({"next"}, <<>>, T1)>>,
      <<Link({"next"}, <<>>, T2)>>,
      <<Link({}, <<"S", "i", "g", "u", "i", "e", "n", "t", "e">>, <<"3">>)>>,
      <<Link({}, <<"3">>, T3), Link({}, <<"1">>, T1), Link({}, <<"2">>, T2)>> }

\* What sess.get and raise_for_status make of a request.
Responses ==
    { [ok |-> FALSE, posts |-> EmptyMap, anchors |-> <<>>] }
    \cup [ok : {TRUE}, posts : PagePosts, anchors : PageAnchors]

-----------------------------------------------------------------------------
(* main: resolving one chain element *)

\* int(cid) under "except Exception": ok is FALSE when int() raises.
IntOf(cid) ==
    LET body == Strip(cid.s)
        signed == body # <<>> /\ Head(body) \in {"+", "-"}
        ds == IF signed THEN Tail(body) ELSE body
    IN  IF cid.t = "int" THEN [ok |-> TRUE, n |-> cid.n]
        ELSE IF cid.t = "str" /\ ds # <<>> /\ \A i \in 1..Len(ds) : ds[i] \in Digits
        THEN [ok |-> TRUE,
              n |-> IF signed /\ Head(body) = "-" THEN 0 - DigitsToInt(ds) ELSE DigitsToInt(ds)]
        ELSE [ok |-> FALSE, n |-> 0]

NullTurn == <<>>

\* The order spec.md gives: the text is cleaned first and the speaker is
\* assigned only for a text that is not empty.
ResolveTurnAssignLate(cid, posts, mapping) ==
    LET r == IntOf(cid)
    IN  IF ~r.ok \/ r.n \notin DOMAIN posts
        THEN [turn |-> NullTurn, miss |-> 1, mapping |-> mapping]
        ELSE LET txt == CleanText(posts[r.n].text)
                 sp == AssignSpeaker(posts[r.n].author, mapping)
             IN  IF txt = <<>>
                 THEN [turn |-> NullTurn, miss |-> 1, mapping |-> mapping]
                 ELSE [turn |-> <<sp.label, txt>>, miss |-> 0, mapping |-> sp.mapping]

\* A mutant: the "if not txt" test is missing.
ResolveTurnNoEmptyTest(cid, posts, mapping) ==
    LET r == IntOf(cid)
    IN  IF ~r.ok \/ r.n \notin DOMAIN posts
        THEN [turn |-> NullTurn, miss |-> 1, mapping |-> mapping]
        ELSE LET sp == AssignSpeaker(posts[r.n].author, mapping)
             IN  [turn |-> <<sp.label, CleanText(posts[r.n].text)>>, miss |-> 0,
                  mapping |-> sp.mapping]

\* A mutant: an empty text gives a null turn that is not counted.
ResolveTurnNoMissOnEmpty(cid, posts, mapping) ==
    LET r == IntOf(cid)
    IN  IF ~r.ok \/ r.n \notin DOMAIN posts
        THEN [turn |-> NullTurn, miss |-> 1, mapping |-> mapping]
        ELSE LET sp == AssignSpeaker(posts[r.n].author, mapping)
                 txt == CleanText(posts[r.n].text)
             IN  IF txt = <<>>
                 THEN [turn |-> NullTurn, miss |-> 0, mapping |-> sp.mapping]
                 ELSE [turn |-> <<sp.label, txt>>, miss |-> 0, mapping |-> sp.mapping]

\* One pass of the body of "for cid in chain": the turn appended, what is
\* added to miss, and the speaker map as the pass leaves it.
ResolveTurn(cid, posts, mapping) ==
    LET r == IntOf(cid)
    IN  IF ~r.ok \/ r.n \notin DOMAIN posts
        THEN [turn |-> NullTurn, miss |-> 1, mapping |-> mapping]
        ELSE LET sp == AssignSpeaker(posts[r.n].author, mapping)
                 txt == CleanText(posts[r.n].text)
             IN  IF txt = <<>>
                 THEN [turn |-> NullTurn, miss |-> 1, mapping |-> sp.mapping]
                 ELSE [turn |-> <<sp.label, txt>>, miss |-> 0, mapping |-> sp.mapping]

-----------------------------------------------------------------------------
(* main and scrape_thread_posts, step by step *)

NoOutput == [written |-> FALSE, dialogues |-> EmptyMap, missing |-> EmptyMap]

SpeakerIdle == speaker_map = EmptyMap /\ calls = <<>>

MainIdle ==
    /\ pc = "idle"
    /\ obj = [thread_url |-> [t |-> "null", s |-> <<>>], dialogues |-> [t |-> "null", items |-> <<>>]]
    /\ max_pages = 0
    /\ url = None /\ seen = {} /\ pages = 0 /\ all_posts = EmptyMap /\ fetched = <<>>
    /\ di = 0 /\ ci = 0 /\ out_turns = <<>> /\ miss = 0
    /\ rehydrated = EmptyMap /\ missing = EmptyMap /\ output = NoOutput

MainInit ==
    /\ pc = "start"
    /\ obj \in [thread_url : ThreadUrls, dialogues : DialogueInputs]
    /\ max_pages \in Caps
    /\ url = None /\ seen = {} /\ pages = 0 /\ all_posts = EmptyMap /\ fetched = <<>>
    /\ di = 0 /\ ci = 0 /\ out_turns = <<>> /\ miss = 0
    /\ rehydrated = EmptyMap /\ missing = EmptyMap /\ output = NoOutput

crawlVars == <<url, seen, pages, all_posts, fetched>>
loopVars == <<di, ci, out_turns, miss, rehydrated, missing>>

\* main, lines 254-263, and the first lines of scrape_thread_posts.
Validate ==
    /\ pc = "start"
    /\ IF ValidInput(obj)
       THEN /\ pc' = "crawl"
            /\ url' = obj.thread_url.s
       ELSE /\ pc' = "raised_input"
            /\ url' = url
    /\ UNCHANGED <<obj, max_pages, seen, pages, all_posts, fetched, loopVars, output,
                   speaker_map, calls, nextVars>>

\* The loop test of scrape_thread_posts.
LoopTest == Truthy(url) /\ url \notin seen /\ pages < max_pages

\* A mutant: an error of the fetch is caught and the page skipped.
CrawlStepCatch ==
    /\ pc = "crawl"
    /\ LoopTest
    /\ seen' = seen \cup {url}
    /\ pages' = pages + 1
    /\ \E resp \in Responses :
        /\ fetched' = Append(fetched, [url |-> url, ok |-> resp.ok])
        /\ pc' = "crawl"
        /\ all_posts' = resp.posts @@ all_posts
        /\ url' = FindNextUrl(url, resp.anchors)
    /\ UNCHANGED <<obj, max_pages, loopVars, output, speaker_map, calls, nextVars>>

\* A mutant: the URL is not recorded as seen.
CrawlStepNoSeen ==
    /\ pc = "crawl"
    /\ LoopTest
    /\ seen' = seen
    /\ pages' = pages + 1
    /\ \E resp \in Responses :
        /\ fetched' = Append(fetched, [url |-> url, ok |-> resp.ok])
        /\ IF resp.ok
           THEN /\ pc' = "crawl"
                /\ all_posts' = resp.posts @@ all_posts
                /\ url' = FindNextUrl(url, resp.anchors)
           ELSE /\ pc' = "raised_fetch"
                /\ UNCHANGED <<all_posts, url>>
    /\ UNCHANGED <<obj, max_pages, loopVars, output, speaker_map, calls, nextVars>>

\* One pass of the while loop of scrape_thread_posts: the fetch raises, or
\* the page's posts are merged and the next URL resolved.
CrawlStep ==
    /\ pc = "crawl"
    /\ LoopTest
    /\ seen' = seen \cup {url}
    /\ pages' = pages + 1
    /\ \E resp \in Responses :
        /\ fetched' = Append(fetched, [url |-> url, ok |-> resp.ok])
        /\ IF resp.ok
           THEN /\ pc' = "crawl"
                /\ all_posts' = resp.posts @@ all_posts
                /\ url' = FindNextUrl(url, resp.anchors)
           ELSE /\ pc' = "raised_fetch"
                /\ UNCHANGED <<all_posts, url>>
    /\ UNCHANGED <<obj, max_pages, loopVars, output, speaker_map, calls, nextVars>>

\* The loop ends and scrape_thread_posts returns all_posts, its other locals
\* going out of scope; main sets up its maps.
CrawlReturn ==
    /\ pc = "crawl"
    /\ ~LoopTest
    /\ pc' = "dialogues"
    /\ url' = None /\ seen' = {} /\ pages' = 0
    /\ di' = 1
    /\ speaker_map' = EmptyMap
    /\ rehydrated' = EmptyMap
    /\ missing' = EmptyMap
    /\ UNCHANGED <<obj, max_pages, all_posts, fetched, ci, out_turns, miss, output,
                   calls, nextVars>>

Items == obj.dialogues.items
Chain == Items[di][2].v

\* "for did, chain in dialogues.items()": the next item, skipped when its
\* value is no list.
NextDialogue ==
    /\ pc = "dialogues"
    /\ di <= Len(Items)
    /\ IF Items[di][2].t = "list"
       THEN /\ pc' = "turns"
            /\ out_turns' = <<>>
            /\ miss' = 0
            /\ ci' = 1
            /\ di' = di
       ELSE /\ di' = di + 1
            /\ UNCHANGED <<pc, out_turns, miss, ci>>
    /\ UNCHANGED <<obj, max_pages, crawlVars, rehydrated, missing, output,
                   speaker_map, calls, nextVars>>

\* A mutant: a turn that does not resolve is dropped instead of appended.
TurnDropsNull ==
    /\ pc = "turns"
    /\ ci <= Len(Chain)
    /\ LET r == ResolveTurn(Chain[ci], all_posts, speaker_map)
       IN  /\ out_turns' = IF r.turn = NullTurn THEN out_turns ELSE Append(out_turns, r.turn)
           /\ miss' = miss + r.miss
           /\ speaker_map' = r.mapping
    /\ ci' = ci + 1
    /\ UNCHANGED <<pc, obj, max_pages, crawlVars, di, rehydrated, missing, output,
                   calls, nextVars>>

\* "for cid in chain": one element.
Turn ==
    /\ pc = "turns"
    /\ ci <= Len(Chain)
    /\ LET r == ResolveTurn(Chain[ci], all_posts, speaker_map)
       IN  /\ out_turns' = Append(out_turns, r.turn)
           /\ miss' = miss + r.miss
           /\ speaker_map' = r.mapping
    /\ ci' = ci + 1
    /\ UNCHANGED <<pc, obj, max_pages, crawlVars, di, rehydrated, missing, output,
                   calls, nextVars>>

\* Lines 309-310: the dialogue is stored with its counts.
EndDialogue ==
    /\ pc = "turns"
    /\ ci > Len(Chain)
    /\ rehydrated' = (Items[di][1] :> out_turns) @@ rehydrated
    /\ missing' = (Items[di][1] :> [n_turns |-> Len(Chain), n_missing |-> miss]) @@ missing
    /\ di' = di + 1
    /\ pc' = "dialogues"
    /\ UNCHANGED <<obj, max_pages, crawlVars, ci, out_turns, miss, output,
                   speaker_map, calls, nextVars>>

\* Lines 312-328: the output document is written.
WriteOutput ==
    /\ pc = "dialogues"
    /\ di > Len(Items)
    /\ output' = [written |-> TRUE, dialogues |-> rehydrated, missing |-> missing]
    /\ pc' = "done"
    /\ UNCHANGED <<obj, max_pages, crawlVars, loopVars, speaker_map, calls, nextVars>>

-----------------------------------------------------------------------------
(* Specifications *)

Init == MainInit /\ SpeakerIdle /\ NextIdle

Next ==
    \/ Validate
    \/ CrawlStep
    \/ CrawlReturn
    \/ NextDialogue
    \/ Turn
    \/ EndDialogue
    \/ WriteOutput

\* One run of main.
Spec == Init /\ [][Next]_vars

\* One input file: an empty chain, a value that is no list, and the chain of
\* spec.md's example.
CrawlInput ==
    [t |-> "dict", items |-> << <<"d1", ListValue(<<>>)>>, <<"d2", NotAList>>,
                                <<"d3", ListValue(ExampleChain)>> >>]

\* The runs of main on that input file, the process never suspended forever:
\* a request ends within its timeout and a sleep ends.
LiveInit == Init /\ obj.dialogues = CrawlInput

LiveSpec == LiveInit /\ [][Next]_vars /\ WF_vars(Next)

SpeakerNext == CallAssignSpeaker /\ UNCHANGED <<mainVars, nextVars>>

\* _assign_speaker called on one speaker map, again and again.
SpeakerSpecInit == MainIdle /\ SpeakerInit /\ NextIdle

SpecSpeaker == SpeakerSpecInit /\ [][SpeakerNext]_vars

FindNext == CallFindNextUrl /\ UNCHANGED <<mainVars, speaker_map, calls>>

\* _find_next_url called once on a page.
NextSpecInit == MainIdle /\ SpeakerIdle /\ NextInit

SpecNext == NextSpecInit /\ [][FindNext]_vars

-----------------------------------------------------------------------------
(* Speaker labels: C5, C6 *)

\* The label after s in the sequence A, B, ..., Z, AA, AB, ...: the last letter
\* advances, and a Z turns into an A with the carry going to the letters before.
RECURSIVE SuccLabel(_)
SuccLabel(s) ==
    IF s = <<>> THEN <<"A">>
    ELSE LET front == SubSeq(s, 1, Len(s) - 1)
             last == s[Len(s)]
         IN  IF last = "Z" THEN Append(SuccLabel(front), "A")
             ELSE Append(front, Alphabet[(CHOOSE i \in 1..Radix : Alphabet[i] = last) + 1])

\* The n-th value (n >= 1) of the sequence A, B, ..., Z, AA, AB, ...
RECURSIVE NthLabel(_)
NthLabel(n) == IF n = 1 THEN <<"A">> ELSE SuccLabel(NthLabel(n - 1))

CallIdx == 1..Len(calls)

\* Blank as the spec lists it: missing, empty or whitespace only.
IsBlank(raw) == raw = None \/ \A i \in 1..Len(raw) : raw[i] \in Whitespace

\* C5 as stated: when the raw author tokens presented to _assign_speaker from
\* an empty speaker map are pairwise distinct, the i-th label returned is the
\* i-th value of A, B, ..., Z, AA, AB, ...
C5_DistinctRawTokensGetFirstLabels ==
    (\A i, j \in CallIdx : i # j => calls[i].raw # calls[j].raw)
        => \A i \in CallIdx : calls[i].label = NthLabel(i)

\* C5 amended: when the tokens presented are pairwise distinct after
\* normalisation (stripped, a blank or missing token read as the sentinel),
\* the i-th label returned is the i-th value of A, B, ..., Z, AA, AB, ...
C5_DistinctTokensGetFirstLabels ==
    (\A i, j \in CallIdx :
        i # j => NormalizeToken(calls[i].raw) # NormalizeToken(calls[j].raw))
        => \A i \in CallIdx : calls[i].label = NthLabel(i)

\* More than 26 distinct tokens were presented and the last one, presented by
\* a call of the run, got the label AA.
C5_Witness ==
    /\ Len(calls) > Radix
    /\ \A i, j \in CallIdx :
        i # j => NormalizeToken(calls[i].raw) # NormalizeToken(calls[j].raw)
    /\ calls[Len(calls)].raw \in RawTokens
    /\ calls[Len(calls)].label = <<"A", "A">>

\* C6: two calls with the same normalised token return the same label,
\* whatever was assigned in between; any two blank tokens share one label;
\* and the speaker map still holds each returned label for its token.
C6_SameTokenSameLabel ==
    /\ \A i, j \in CallIdx :
        NormalizeToken(calls[i].raw) = NormalizeToken(calls[j].raw)
            => calls[i].label = calls[j].label
    /\ \A i, j \in CallIdx :
        IsBlank(calls[i].raw) /\ IsBlank(calls[j].raw) => calls[i].label = calls[j].label
    /\ \A i \in CallIdx :
        /\ NormalizeToken(calls[i].raw) \in DOMAIN speaker_map
        /\ speaker_map[NormalizeToken(calls[i].raw)] = calls[i].label

\* A blank token, then a token that got a new label, then a blank token
\* spelled differently that got the label of the first.
C6_Witness ==
    \E i, j, k \in CallIdx :
        /\ i < j /\ j < k
        /\ IsBlank(calls[i].raw) /\ IsBlank(calls[k].raw)
        /\ calls[i].raw # calls[k].raw
        /\ ~IsBlank(calls[j].raw)
        /\ calls[j].label # calls[i].label
        /\ calls[k].label = calls[i].label

-----------------------------------------------------------------------------
(* Next page: C10 *)

\* The anchor's href resolved against the current URL, None when it has none.
Resolved(i) == NormalizeHref(cur_url, soup[i].href)

SoupIdx == 1..Len(soup)

\* The first anchor marked rel=next, when its resolved href exists.
Tier1 ==
    {i \in SoupIdx :
        /\ "next" \in soup[i].rel
        /\ \A j \in SoupIdx : "next" \in soup[j].rel => i <= j
        /\ Resolved(i) # None}

\* The anchors whose lower-cased text is "siguiente" and whose resolved href exists.
Tier2 == {i \in SoupIdx : AnchorText(soup[i]) = Siguiente /\ Resolved(i) # None}

CurPage == IF PageOf(cur_url) = -1 THEN 1 ELSE PageOf(cur_url)

\* The anchors whose resolved path ends in an integer above the current page.
Tier3 == {i \in SoupIdx : Resolved(i) # None /\ PageOf(Resolved(i)) > CurPage}

\* C10 as stated: the result is the resolved href of the rel=next anchor if
\* there is one; else that of the first "siguiente" anchor that has one; else
\* a URL with the smallest page number above the current page; and "no next
\* page" exactly when no tier qualifies.
C10_TierOrder ==
    nxt # Pending =>
        IF Tier1 # {} THEN \E i \in Tier1 : nxt = Resolved(i)
        ELSE IF Tier2 # {}
        THEN nxt = Resolved(CHOOSE i \in Tier2 : \A j \in Tier2 : i <= j)
        ELSE IF Tier3 # {}
        THEN \E i \in Tier3 :
                /\ \A j \in Tier3 : PageOf(Resolved(i)) <= PageOf(Resolved(j))
                /\ nxt = Resolved(i)
        ELSE nxt = None

\* The same, for pages none of whose anchors has a whitespace-only href.
C10_TierOrderNoBlankHref ==
    (\A i \in SoupIdx : soup[i].href = None \/ soup[i].href = <<>> \/ Strip(soup[i].href) # <<>>)
        => C10_TierOrder

-----------------------------------------------------------------------------
(* The crawl: C1, C8 *)

FetchIdx == 1..Len(fetched)

Ended == pc \in {"done", "raised_input", "raised_fetch"}

\* C1: the crawl never makes more than max_pages fetches and never fetches
\* a URL twice, whatever the pages link to, and the run ends.
C1_CrawlTerminatesWithinCap ==
    /\ [](/\ Len(fetched) <= max_pages
          /\ \A i, j \in FetchIdx : i # j => fetched[i].url # fetched[j].url
          /\ pc = "crawl" => pages = Len(fetched) /\ seen = {fetched[i].url : i \in FetchIdx})
    /\ <>Ended

\* Page 1 linked to page 2 and page 2 back to page 1: under the cap 5 the
\* loop is left after two fetches, its next URL being one already seen.
C1_Witness ==
    /\ max_pages = ExampleCap
    /\ pc = "crawl"
    /\ Len(fetched) = 2
    /\ fetched[1].url = T1 /\ fetched[2].url = T2
    /\ url = T1
    /\ ~LoopTest

\* C8: a fetch that fails is the last fetch of the run, the run ends there
\* with no output file; the file is written only by a run whose fetches all
\* succeeded and whose dialogues were all gone through.
C8_FetchFailureAborts ==
    /\ \A i \in FetchIdx :
        ~fetched[i].ok => i = Len(fetched) /\ pc = "raised_fetch" /\ ~output.written
    /\ pc = "raised_fetch" => Len(fetched) >= 1 /\ ~fetched[Len(fetched)].ok
    /\ output.written =>
        /\ pc = "done"
        /\ \A i \in FetchIdx : fetched[i].ok
        /\ di > Len(Items)

\* The first page was fetched and gave posts, the fetch of the second failed.
C8_Witness ==
    /\ pc = "raised_fetch"
    /\ Len(fetched) = 2
    /\ fetched[1].ok /\ ~fetched[2].ok
    /\ all_posts # EmptyMap
    /\ ~output.written

-----------------------------------------------------------------------------
(* The input guard: C7 *)

\* thread_url missing, not a string or blank, or dialogues not a mapping.
BadInput ==
    \/ obj.thread_url.t # "str"
    \/ \A i \in 1..Len(obj.thread_url.s) : obj.thread_url.s[i] \in Whitespace
    \/ obj.dialogues.t # "dict"

\* C7: on such an input the run raises at once: no page is fetched and no
\* output file is written.
C7_BadInputRaisesBeforeFetch ==
    BadInput =>
        /\ pc \in {"start", "raised_input"}
        /\ fetched = <<>>
        /\ ~output.written

\* The run raised on a thread_url that is a blank string, dialogues being a mapping.
C7_Witness ==
    /\ pc = "raised_input"
    /\ obj.thread_url.t = "str"
    /\ obj.thread_url.s # <<>>
    /\ obj.dialogues.t = "dict"

-----------------------------------------------------------------------------
(* Turns: C2, C3, C4, C9 *)

\* The dialogues stored so far, as indices of the input's items.
Stored == {k \in 1..Len(Items) : pc \notin {"start", "raised_input"} /\ Items[k][1] \in DOMAIN rehydrated}

\* Every chain with the turns emitted for it so far.
Emitted ==
    {<<Items[k][2].v, rehydrated[Items[k][1]]>> : k \in Stored}
    \cup (IF pc = "turns" THEN {<<Chain, out_turns>>} ELSE {})

\* The three reasons of spec.md for a null turn.
Unresolvable(cid) ==
    \/ ~IntOf(cid).ok
    \/ IntOf(cid).n \notin DOMAIN all_posts
    \/ CleanText(all_posts[IntOf(cid).n].text) = <<>>

\* C2: a turn is null exactly when its ID does not parse, is no key of the
\* post map or has an empty cleaned text; any other turn is the letter of the
\* post's author and the post's cleaned text.
C2_NullIffUnresolvable ==
    \A e \in Emitted : \A j \in 1..Len(e[2]) :
        /\ j <= Len(e[1])
        /\ (e[2][j] = NullTurn) <=> Unresolvable(e[1][j])
        /\ e[2][j] # NullTurn =>
            LET post == all_posts[IntOf(e[1][j]).n]
            IN  /\ Len(e[2][j]) = 2
                /\ NormalizeToken(post.author) \in DOMAIN speaker_map
                /\ e[2][j][1] = speaker_map[NormalizeToken(post.author)]
                /\ e[2][j][2] = CleanText(post.text)

\* A stored dialogue with a turn of text next to a turn that is null because
\* the cleaned text of its post is empty.
C2_Witness ==
    \E e \in Emitted : \E j, k \in 1..Len(e[2]) :
        /\ pc = "done"
        /\ e[2][j] # NullTurn
        /\ e[2][k] = NullTurn
        /\ IntOf(e[1][k]).ok
        /\ IntOf(e[1][k]).n \in DOMAIN all_posts

\* What a chain element resolves to, by spec.md: null or [letter, text].
Resolution(cid) ==
    IF Unresolvable(cid) THEN NullTurn
    ELSE <<speaker_map[NormalizeToken(all_posts[IntOf(cid).n].author)],
           CleanText(all_posts[IntOf(cid).n].text)>>

\* C3: a stored dialogue has one turn per element of its chain, the j-th
\* turn being the resolution of the j-th element; the dialogue in progress
\* has one turn per element gone through; and the stored dialogues are the
\* list-typed items gone through.
C3_ChainOrderPreserved ==
    /\ \A k \in Stored :
        LET chain == Items[k][2].v
            turns == rehydrated[Items[k][1]]
        IN  /\ Len(turns) = Len(chain)
            /\ \A j \in 1..Len(chain) : turns[j] = Resolution(chain[j])
    /\ pc = "turns" =>
        /\ Len(out_turns) = ci - 1
        /\ \A j \in 1..(ci - 1) : out_turns[j] = Resolution(Chain[j])
    /\ pc \in {"dialogues", "turns", "done"} =>
        DOMAIN rehydrated = {Items[k][1] : k \in {k \in 1..(di - 1) : Items[k][2].t = "list"}}

\* A run that ended with a stored dialogue of three turns: text, null, null.
C3_Witness ==
    /\ pc = "done"
    /\ \E k \in Stored :
        LET turns == output.dialogues[Items[k][1]]
        IN  /\ Len(turns) = 3
            /\ turns[1] # NullTurn /\ turns[2] = NullTurn /\ turns[3] = NullTurn

Nulls(turns) == Cardinality({j \in 1..Len(turns) : turns[j] = NullTurn})

\* spec.md's example: the post map {5: ("alice", "hello")} and the chain [5, 6, "x"].
ExampleRun ==
    /\ pc \notin {"start", "raised_input"}
    /\ all_posts = (5 :> Post(Alice, Hello))
    /\ Items[1] = <<"d1", ListValue(ExampleChain)>>
    /\ "d1" \in DOMAIN rehydrated

\* C4: for every dialogue stored, n_missing is the number of its null turns
\* and n_turns the length of its chain, in the output file as well; once the
\* dialogues are gone through the run does not raise; and the example gives
\* [["A", "hello"], null, null] with n_missing 2 and n_turns 3.
C4_MissCounts ==
    /\ \A k \in Stored :
        LET did == Items[k][1]
        IN  /\ did \in DOMAIN missing
            /\ missing[did].n_missing = Nulls(rehydrated[did])
            /\ missing[did].n_turns = Len(Items[k][2].v)
    /\ pc = "turns" => miss = Nulls(out_turns)
    /\ output.written => output.dialogues = rehydrated /\ output.missing = missing
    /\ pc \in {"raised_input", "raised_fetch"} => di = 0
    /\ ExampleRun =>
        /\ rehydrated["d1"] = << <<<<"A">>, Hello>>, NullTurn, NullTurn >>
        /\ missing["d1"] = [n_turns |-> 3, n_missing |-> 2]

\* The example ran to the end and its counts are in the output file.
C4_Witness ==
    /\ ExampleRun
    /\ pc = "done"
    /\ output.written
    /\ output.missing["d1"].n_missing = 2

\* The turns of text emitted so far, and their letters.
TextTurns == UNION {{e[2][j] : j \in 1..Len(e[2])} : e \in Emitted} \ {NullTurn}
LettersOut == {t[1] : t \in TextTurns}

\* C9 as stated: a letter is assigned only for a turn that is emitted, so
\* every letter of the speaker map is the letter of an emitted turn, and the
\* letters of the emitted turns are A, B, C, ... with no gap.
C9_LettersOnlyForEmittedTurns ==
    /\ \A a \in DOMAIN speaker_map : speaker_map[a] \in LettersOut
    /\ LettersOut = {NthLabel(n) : n \in 1..Cardinality(LettersOut)}

====
